---- MODULE Spec2Model ----
(***************************************************************************)
(* Model of the CZK storage driver (drivers/czk): the session fields of    *)
(* the CZK struct, Init, authenticate, refreshToken and                    *)
(* refreshTokenIfNeeded, as called by the facade operations.               *)
(*                                                                         *)
(* Time is an integer clock; the zero time.Time is ZeroTime.  A blocking   *)
(* HTTP round trip is split into the step that sends the request and the   *)
(* step that handles the response, which is drawn from the set of          *)
(* responses the remote can produce.                                       *)
(***************************************************************************)
EXTENDS Integers, FiniteSets, Sequences, TLC

\* ------------------------------------------------------------------ bounds
MaxTime == 4
MaxItems == 2

\* --------------------------------------------------------------- constants
ZeroTime == 0
HttpOK == 200
StatusOK == 200
DefaultTimeout == 30
UploadTimeoutDefault == DefaultTimeout
UploadTimeout == 600
NoTimeout == 0

Procs == {1}

Nil == "nil"
NotCalled == "not called"

\* the message strings of the remote, transliterated to ASCII
AuthSuccessMessage == "renzheng chenggong"
MsgNeedRefreshToken == "xuyao tigong shuaxin lingpai"
MsgInvalidRefreshToken == "wuxiao huo guoqi de shuaxin lingpai"

ErrNoCreds == "API key or secret not set"
ErrAuthSend == "failed to send auth request"
ErrAuthHttp == "authentication failed with status"
ErrAuthParse == "failed to parse auth response"
ErrAuthApi == "authentication API error"
ErrAuthNoAccess == "authentication succeeded but no access token returned"
ErrAuthNoRefresh == "authentication succeeded but no refresh token returned"

ErrNoRefreshToken == "no refresh token available, need to re-authenticate"
ErrRefreshSend == "failed to send refresh request"
ErrRefreshHttp == "token refresh failed with status"
ErrRefreshParse == "failed to parse refresh response"
ErrRefreshApiInvalid == "token refresh API error, refresh token may be invalid or expired"
ErrRefreshApi == "token refresh API error"

\* ------------------------------------------------------------ input domains
APIKeys == {"", "key"}
APISecrets == {"", "secret"}
AccessTokens == {"", "a1", "a2"}
RefreshTokens == {"", "r1", "r2"}
AuthRefreshTokens == {"", "r1"}
NewRefreshTokens == {"", "r2"}
ExpiresInVals == {-1, 0, 1, 2}
HttpStatuses == {200, 500}
ApiStatuses == {200, 401}
AuthMessages == {AuthSuccessMessage, "error"}
RefreshMessages == {MsgInvalidRefreshToken, "ok"}

\* What the remote can answer to GET /czkapi/authenticate: a transport error,
\* or an HTTP status with a body that json.Unmarshal decodes into AuthResp
\* (parseErr: Unmarshal returned an error; the other fields are then whatever
\* was decoded before the error).
AuthResponses ==
  [neterr : {TRUE}, http : {0}, parseErr : {FALSE}, status : {0},
   message : {"error"}, at : {""}, rt : {""}, expiresIn : {0}]
  \cup
  [neterr : {FALSE}, http : HttpStatuses \ {HttpOK}, parseErr : {FALSE}, status : {0},
   message : {"error"}, at : {""}, rt : {""}, expiresIn : {0}]
  \cup
  [neterr : {FALSE}, http : {HttpOK}, parseErr : {TRUE}, status : {0},
   message : {AuthSuccessMessage}, at : {"", "a1"}, rt : {"", "r1"}, expiresIn : {2}]
  \cup
  [neterr : {FALSE}, http : {HttpOK}, parseErr : {FALSE}, status : ApiStatuses,
   message : AuthMessages, at : AccessTokens, rt : AuthRefreshTokens,
   expiresIn : ExpiresInVals]

\* What the remote can answer to POST /czkapi/refresh_token.  rt is the
\* "refresh_token" member of the body's "data" object (empty: not supplied).
RefreshResponses ==
  [neterr : {TRUE}, http : {0}, parseErr : {FALSE}, success : {FALSE}, status : {0},
   message : {"ok"}, at : {""}, rt : {""}, expiresIn : {0}]
  \cup
  [neterr : {FALSE}, http : HttpStatuses \ {HttpOK}, parseErr : {FALSE},
   success : {FALSE}, status : {0},
   message : {"ok"}, at : {""}, rt : {""}, expiresIn : {0}]
  \cup
  [neterr : {FALSE}, http : {HttpOK}, parseErr : {TRUE}, success : {TRUE},
   status : {StatusOK},
   message : {"ok"}, at : {"a1"}, rt : {""}, expiresIn : {2}]
  \cup
  [neterr : {FALSE}, http : {HttpOK}, parseErr : {FALSE}, success : BOOLEAN,
   status : ApiStatuses, message : RefreshMessages, at : AccessTokens,
   rt : NewRefreshTokens, expiresIn : ExpiresInVals]

NoAuthResp ==
  [neterr |-> FALSE, http |-> 0, parseErr |-> FALSE, status |-> 0,
   message |-> "", at |-> "", rt |-> "", expiresIn |-> 0]

NoRefreshResp ==
  [neterr |-> FALSE, http |-> 0, parseErr |-> FALSE, success |-> FALSE, status |-> 0,
   message |-> "", at |-> "", rt |-> "", expiresIn |-> 0]

\* ------------------------------------------------------------------- state
VARIABLES
  APIKey, APISecret,          \* Addition
  AccessToken, RefreshToken,  \* CZK session fields
  ExpiresAt,
  client,                     \* "nil" before Init, "set" after resty.New()
  timeout,                    \* the client's timeout, in seconds
  now,                        \* time.Now()
  pc,                         \* per caller: where it is in its call
  op,                         \* per caller: "Init", "Op" or "none"
  pre,                        \* per caller: session and clock at the call's entry
  nRefresh, nAuth,            \* per caller: requests sent during the call
  refreshErr, authErr,        \* per caller: what refreshToken / authenticate returned
  refreshResp,                \* per caller: the response refreshToken accepted
  authResp,                   \* per caller: the response authenticate received
  storedAt,                   \* per caller: the clock when the call last stored tokens
  retErr                      \* per caller: what Init / refreshTokenIfNeeded returned

VARIABLES
  input,                      \* the request and response a facade handler is applied to
  output                      \* what the handler returned for it

VARIABLES
  file,                       \* per caller: the file Put was called with
  sent,                       \* per caller: the upload requests Put has sent
  initResp,                   \* per caller: what Put read in the first_upload response
  opErr,                      \* per caller: the error the operation returned
  opResp                      \* per caller: what the operation read in its response

VARIABLES
  serialized                  \* the host lets one call at a time into the instance

vars == <<APIKey, APISecret, AccessToken, RefreshToken, ExpiresAt, client, timeout,
          now, pc, op, pre, nRefresh, nAuth, refreshErr, authErr, refreshResp,
          authResp, storedAt, retErr, input, output, file, sent, initResp, opErr,
          opResp, serialized>>

mapio == <<input, output>>

upload == <<file, sent, initResp, opErr, opResp>>

config == <<APIKey, APISecret, serialized>>
session == <<AccessToken, RefreshToken, ExpiresAt>>
history == <<pre, nRefresh, nAuth, refreshErr, authErr, refreshResp, authResp,
             storedAt, retErr>>

Session == [at |-> AccessToken, rt |-> RefreshToken, exp |-> ExpiresAt]

NoPre == [at |-> "", rt |-> "", exp |-> ZeroTime, now |-> ZeroTime]

\* ------------------------------------------------------- pure functions
\* time.Now().After(d.ExpiresAt)
NeedsRefreshBefore(t, exp) == t < exp

NeedsRefreshAtOrAfter(t, exp) == t >= exp

NeedsRefresh(t, exp) == t > exp

\* d.APIKey == "" || d.APISecret == ""
CredsMissingKeyOnly(key, secret) == key = ""

CredsMissing(key, secret) == key = "" \/ secret = ""

\* d.RefreshToken == ""
NoRefreshTokenNever(rt) == FALSE

NoRefreshToken(rt) == rt = ""

\* the checks of authenticate on the response, in the code's order
AuthOutcomeNoTokenCheck(r) ==
  IF r.neterr THEN ErrAuthSend
  ELSE IF r.http # HttpOK THEN ErrAuthHttp
  ELSE IF r.parseErr THEN ErrAuthParse
  ELSE IF r.status # StatusOK /\ r.message # AuthSuccessMessage THEN ErrAuthApi
  ELSE Nil

AuthOutcome(r) ==
  IF r.neterr THEN ErrAuthSend
  ELSE IF r.http # HttpOK THEN ErrAuthHttp
  ELSE IF r.parseErr THEN ErrAuthParse
  ELSE IF r.status # StatusOK /\ r.message # AuthSuccessMessage THEN ErrAuthApi
  ELSE IF r.at = "" THEN ErrAuthNoAccess
  ELSE IF r.rt = "" THEN ErrAuthNoRefresh
  ELSE Nil

\* the session authenticate stores on success
AuthStoreSwapped(r, t) == [at |-> r.rt, rt |-> r.at, exp |-> r.expiresIn]

AuthStore(r, t) == [at |-> r.at, rt |-> r.rt, exp |-> t + r.expiresIn]

\* json.Unmarshal(resp.Body(), &refreshResp): RefreshResp.Data declares
\* access_token, expires_in and token_type only, so the body's refresh_token
\* member is dropped and the decoded value carries no refresh token.
UnmarshalRefreshResp(r) ==
  [parseErr |-> r.parseErr, success |-> r.success, status |-> r.status,
   message |-> r.message, at |-> r.at, expiresIn |-> r.expiresIn, rt |-> ""]

\* the checks of refreshToken on the response, in the code's order
RefreshOutcome(r) ==
  IF r.neterr THEN ErrRefreshSend
  ELSE IF r.http # HttpOK THEN ErrRefreshHttp
  ELSE IF UnmarshalRefreshResp(r).parseErr THEN ErrRefreshParse
  ELSE IF ~UnmarshalRefreshResp(r).success \/ UnmarshalRefreshResp(r).status # StatusOK
       THEN IF UnmarshalRefreshResp(r).message \in {MsgNeedRefreshToken, MsgInvalidRefreshToken}
            THEN ErrRefreshApiInvalid
            ELSE ErrRefreshApi
  ELSE Nil

\* the session refreshToken stores on success
RefreshStoreKeepAccess(r, t, oldRt) ==
  [at |-> "", rt |-> oldRt, exp |-> t + UnmarshalRefreshResp(r).expiresIn]

RefreshStore(r, t, oldRt) ==
  [at |-> UnmarshalRefreshResp(r).at,
   rt |-> IF UnmarshalRefreshResp(r).rt # "" THEN UnmarshalRefreshResp(r).rt ELSE oldRt,
   exp |-> t + UnmarshalRefreshResp(r).expiresIn]

\* refreshTokenIfNeeded after refreshToken returned rErr: Nil returns nil,
\* an error falls through to authenticate
FallsBackToAuthAlways(rErr) == TRUE

FallsBackToAuthNever(rErr) == FALSE

FallsBackToAuth(rErr) == rErr # Nil

\* what refreshTokenIfNeeded (or Init) returns once authenticate returned aErr
ReturnAfterAuthRefreshErr(rErr, aErr) == IF rErr \notin {Nil, NotCalled} THEN rErr ELSE aErr

ReturnAfterAuth(rErr, aErr) == aErr

\* ------------------------------------------- facade: the JSON tree
\* A value of the generic tree json.Unmarshal builds (map[string]interface{}):
\* a missing member, a number (float64), a string, an object or an array.
Absent == <<"absent">>
Num(n) == <<"num", n>>
Str(x) == <<"str", x>>
Obj(o) == <<"obj", o>>
Arr(a) == <<"arr", a>>

\* the type assertions v.(float64), v.(string), v.(map[string]interface{}),
\* v.([]interface{})
IsNum(v) == v[1] = "num"
IsStr(v) == v[1] = "str"
IsObj(v) == v[1] = "obj"
IsArr(v) == v[1] = "arr"

Digit == <<"0", "1", "2", "3", "4", "5", "6", "7", "8", "9">>

\* fmt.Sprintf("%.0f", n) for a whole number n
RECURSIVE FormatFloat0(_)
FormatFloat0(n) ==
  IF n < 0 THEN "-" \o FormatFloat0(0 - n)
  ELSE IF n < 10 THEN Digit[n + 1]
  ELSE FormatFloat0(n \div 10) \o Digit[(n % 10) + 1]

\* the timestamp strings of the inputs and the instants they denote
TsFixed == "2025-06-29 15:37:01"
TsFixed2 == "2025-01-01 00:00:00"
TsRFC3339 == "2025-06-29T15:37:01Z"
TsGarbage == "yesterday"

InstantOf ==
  [x \in {TsFixed, TsFixed2, TsRFC3339} |->
     IF x = TsFixed2 THEN 11 ELSE 12]

\* time.Parse("2006-01-02 15:04:05", x): only strings of that layout parse
ParseLayoutAlsoRFC3339(x) ==
  IF x \in {TsFixed, TsFixed2, TsRFC3339} THEN [ok |-> TRUE, t |-> InstantOf[x]]
  ELSE [ok |-> FALSE, t |-> ZeroTime]

ParseLayout(x) ==
  IF x \in {TsFixed, TsFixed2} THEN [ok |-> TRUE, t |-> InstantOf[x]]
  ELSE [ok |-> FALSE, t |-> ZeroTime]

\* ------------------------------------------- facade: errors and results
ErrOpSend == "failed to send request"
ErrOpHttp == "request failed with status"
ErrOpParse == "failed to parse response"
ErrOpApi == "API error"
ErrNoLink == "failed to get download link from response"
ErrInitParams == "missing required parameters from init upload response"
ErrHash == "failed to calculate file md5"
ErrSeek == "failed to seek file"

UnknownError == "unknown error"

\* what a handler returns: an error (with the remote's code and message when
\* it is an API error) or a value
OpFail(e) == [err |-> e, code |-> 0, message |-> "", val |-> <<>>]
OpApiFail(c, m) == [err |-> ErrOpApi, code |-> c, message |-> m, val |-> <<>>]
OpOk(v) == [err |-> Nil, code |-> 0, message |-> "", val |-> v]

\* err != nil after the request, resp.StatusCode() != http.StatusOK,
\* json.Unmarshal's error: the three tests every handler makes first
TransportCheck(r) ==
  IF r.neterr THEN ErrOpSend
  ELSE IF r.http # HttpOK THEN ErrOpHttp
  ELSE IF r.body.parseErr THEN ErrOpParse
  ELSE Nil

\* if code, ok := resp[f].(float64); ok && int64(code) != 200
HasAppError(body, f) == IsNum(body[f]) /\ body[f][2] # StatusOK

\* message := "unknown error", replaced by the first of the members fs that
\* is a string
RECURSIVE MessageOf(_, _)
MessageOf(body, fs) ==
  IF fs = <<>> THEN UnknownError
  ELSE IF IsStr(body[Head(fs)]) THEN body[Head(fs)][2]
  ELSE MessageOf(body, Tail(fs))

\* the member each handler reads the code from, and the members it reads the
\* message from, in its order
CodeFieldRenameCode ==
  [List |-> "code", Link |-> "status", MakeDir |-> "code", Move |-> "code",
   Rename |-> "code", Remove |-> "code", PutInit |-> "code", PutComplete |-> "code"]

CodeField ==
  [List |-> "code", Link |-> "status", MakeDir |-> "code", Move |-> "code",
   Rename |-> "status", Remove |-> "code", PutInit |-> "code", PutComplete |-> "code"]

MsgFieldsListBoth ==
  [List |-> <<"message", "msg">>, Link |-> <<"message">>, MakeDir |-> <<"msg", "message">>,
   Move |-> <<"message", "msg">>, Rename |-> <<"message">>, Remove |-> <<"msg">>,
   PutInit |-> <<"msg">>, PutComplete |-> <<"msg", "message">>]

MsgFields ==
  [List |-> <<"message">>, Link |-> <<"message">>, MakeDir |-> <<"msg", "message">>,
   Move |-> <<"message", "msg">>, Rename |-> <<"message">>, Remove |-> <<"msg">>,
   PutInit |-> <<"msg">>, PutComplete |-> <<"msg", "message">>]

\* the API error a handler returns for body
AppError(body, f, fs) == OpApiFail(body[f][2], MessageOf(body, fs))

\* ------------------------------------------- facade: List
\* one element of data.items that is an object, mapped to a model.Object
MapItemStringId(item, t) ==
  LET isFolder == IsStr(item.type) /\ item.type[2] = "folder"
      modifiedStr == IF isFolder
                       THEN IF IsStr(item.created_at) THEN item.created_at[2] ELSE ""
                       ELSE IF IsStr(item.uploaded_at) THEN item.uploaded_at[2] ELSE ""
  IN [ID |-> IF IsNum(item.id) THEN FormatFloat0(item.id[2])
             ELSE IF IsStr(item.id) THEN item.id[2] ELSE "",
      Name |-> IF IsStr(item.name) THEN item.name[2] ELSE "",
      Size |-> IF IsNum(item.size) THEN item.size[2] ELSE 0,
      Modified |-> IF modifiedStr # "" /\ ParseLayout(modifiedStr).ok
                     THEN ParseLayout(modifiedStr).t ELSE t,
      IsFolder |-> isFolder]

MapItem(item, t) ==
  LET isFolder == IsStr(item.type) /\ item.type[2] = "folder"
      modifiedStr == IF isFolder
                       THEN IF IsStr(item.created_at) THEN item.created_at[2] ELSE ""
                       ELSE IF IsStr(item.uploaded_at) THEN item.uploaded_at[2] ELSE ""
  IN [ID |-> IF IsNum(item.id) THEN FormatFloat0(item.id[2]) ELSE "",
      Name |-> IF IsStr(item.name) THEN item.name[2] ELSE "",
      Size |-> IF IsNum(item.size) THEN item.size[2] ELSE 0,
      Modified |-> IF modifiedStr # "" /\ ParseLayout(modifiedStr).ok
                     THEN ParseLayout(modifiedStr).t ELSE t,
      IsFolder |-> isFolder]

\* the loop over data.items: elements that are not objects are passed over
RECURSIVE MapItemsSkipFolders(_, _)
MapItemsSkipFolders(items, t) ==
  IF items = <<>> THEN <<>>
  ELSE (IF IsObj(Head(items)) /\ ~MapItem(Head(items)[2], t).IsFolder
          THEN <<MapItem(Head(items)[2], t)>> ELSE <<>>)
       \o MapItemsSkipFolders(Tail(items), t)

RECURSIVE MapItems(_, _)
MapItems(items, t) ==
  IF items = <<>> THEN <<>>
  ELSE (IF IsObj(Head(items)) THEN <<MapItem(Head(items)[2], t)>> ELSE <<>>)
       \o MapItems(Tail(items), t)

\* the objects List extracts from the response's data
ListObjs(data, t) ==
  IF IsObj(data) /\ IsArr(data[2].items) THEN MapItems(data[2].items[2], t) ELSE <<>>

List(r, t) ==
  IF TransportCheck(r) # Nil THEN OpFail(TransportCheck(r))
  ELSE IF HasAppError(r.body, CodeField["List"])
    THEN AppError(r.body, CodeField["List"], MsgFields["List"])
  ELSE OpOk(ListObjs(r.body.data, t))

\* ------------------------------------------- facade: Link
\* data["download_link"] if it is a non-empty string, else data["url"] if it
\* is one, else ""
DownloadLink(data) ==
  IF ~IsObj(data) THEN ""
  ELSE IF IsStr(data[2].download_link) /\ data[2].download_link[2] # ""
    THEN data[2].download_link[2]
  ELSE IF IsStr(data[2].url) /\ data[2].url[2] # "" THEN data[2].url[2]
  ELSE ""

LinkAllowEmpty(r) ==
  IF TransportCheck(r) # Nil THEN OpFail(TransportCheck(r))
  ELSE IF HasAppError(r.body, CodeField["Link"])
    THEN AppError(r.body, CodeField["Link"], MsgFields["Link"])
  ELSE OpOk([URL |-> DownloadLink(r.body.data)])

Link(r) ==
  IF TransportCheck(r) # Nil THEN OpFail(TransportCheck(r))
  ELSE IF HasAppError(r.body, CodeField["Link"])
    THEN AppError(r.body, CodeField["Link"], MsgFields["Link"])
  ELSE IF DownloadLink(r.body.data) = "" THEN OpFail(ErrNoLink)
  ELSE OpOk([URL |-> DownloadLink(r.body.data)])

\* ------------------------------------------- facade: MakeDir
MakeDir(r, dirName, t) ==
  IF TransportCheck(r) # Nil THEN OpFail(TransportCheck(r))
  ELSE IF HasAppError(r.body, CodeField["MakeDir"])
    THEN AppError(r.body, CodeField["MakeDir"], MsgFields["MakeDir"])
  ELSE OpOk([ID |-> IF IsObj(r.body.data) /\ IsNum(r.body.data[2].folder_id)
                      THEN FormatFloat0(r.body.data[2].folder_id[2]) ELSE "",
             Name |-> dirName, Size |-> 0, Modified |-> t, IsFolder |-> TRUE])

\* ------------------------------------------- facade: Move
\* the loop over data.items: the first object whose numeric id renders as the
\* moved object's id updates the name and the time, and ends the loop
RECURSIVE MoveUpdate(_, _)
MoveUpdate(obj, items) ==
  IF items = <<>> THEN obj
  ELSE IF IsObj(Head(items)) /\ IsNum(Head(items)[2].id)
          /\ FormatFloat0(Head(items)[2].id[2]) = obj.ID
    THEN [obj EXCEPT
            !.Name = IF IsStr(Head(items)[2].name) THEN Head(items)[2].name[2] ELSE @,
            !.Modified = IF IsStr(Head(items)[2].created_at)
                            /\ ParseLayout(Head(items)[2].created_at[2]).ok
                           THEN ParseLayout(Head(items)[2].created_at[2]).t ELSE @]
  ELSE MoveUpdate(obj, Tail(items))

\* the object Move returns: the source object's fields, then the update
MoveObjLocalOnly(src, data, t) ==
  [ID |-> src.id, Name |-> src.name, Size |-> src.size, Modified |-> t,
   IsFolder |-> src.isDir]

MoveObj(src, data, t) ==
  IF IsObj(data) /\ IsArr(data[2].items) /\ Len(data[2].items[2]) > 0
    THEN MoveUpdate([ID |-> src.id, Name |-> src.name, Size |-> src.size,
                     Modified |-> t, IsFolder |-> src.isDir], data[2].items[2])
    ELSE [ID |-> src.id, Name |-> src.name, Size |-> src.size, Modified |-> t,
          IsFolder |-> src.isDir]

Move(r, src, t) ==
  IF TransportCheck(r) # Nil THEN OpFail(TransportCheck(r))
  ELSE IF HasAppError(r.body, CodeField["Move"])
    THEN AppError(r.body, CodeField["Move"], MsgFields["Move"])
  ELSE OpOk(MoveObj(src, r.body.data, t))

\* ------------------------------------------- facade: Rename
RenameObj(src, newName, t) ==
  [ID |-> src.id, Name |-> newName, Size |-> src.size, Modified |-> t,
   IsFolder |-> src.isDir]

Rename(r, src, newName, t) ==
  IF TransportCheck(r) # Nil THEN OpFail(TransportCheck(r))
  ELSE IF HasAppError(r.body, CodeField["Rename"])
    THEN AppError(r.body, CodeField["Rename"], MsgFields["Rename"])
  ELSE OpOk(RenameObj(src, newName, t))

\* ------------------------------------------- facade: Remove
Remove(r) ==
  IF TransportCheck(r) # Nil THEN OpFail(TransportCheck(r))
  ELSE IF HasAppError(r.body, CodeField["Remove"])
    THEN AppError(r.body, CodeField["Remove"], MsgFields["Remove"])
  ELSE OpOk(<<>>)

\* ------------------------------------------- facade: Put
\* csrfToken and fileKey as Put extracts them from the init response's data
CsrfToken(data) ==
  IF IsObj(data) /\ IsStr(data[2].csrf_token) THEN data[2].csrf_token[2] ELSE ""

FileKey(data) ==
  IF IsObj(data) /\ IsStr(data[2].file_key) THEN data[2].file_key[2] ELSE ""

\* csrfToken == "" || fileKey == ""
InitParamsMissingCsrfOnly(csrf, key) == csrf = ""

InitParamsMissing(csrf, key) == csrf = "" \/ key = ""

\* Put on the response to first_upload: an error, or the two parameters
PutInit(r) ==
  IF TransportCheck(r) # Nil THEN OpFail(TransportCheck(r))
  ELSE IF HasAppError(r.body, CodeField["PutInit"])
    THEN AppError(r.body, CodeField["PutInit"], MsgFields["PutInit"])
  ELSE IF InitParamsMissing(CsrfToken(r.body.data), FileKey(r.body.data))
    THEN OpFail(ErrInitParams)
  ELSE OpOk([csrfToken |-> CsrfToken(r.body.data), fileKey |-> FileKey(r.body.data)])

\* Put on the response to ok_upload
PutComplete(r, f, t) ==
  IF TransportCheck(r) # Nil THEN OpFail(TransportCheck(r))
  ELSE IF HasAppError(r.body, CodeField["PutComplete"])
    THEN AppError(r.body, CodeField["PutComplete"], MsgFields["PutComplete"])
  ELSE OpOk([ID |-> "", Name |-> f.name, Size |-> f.size, Modified |-> t,
             IsFolder |-> FALSE])

\* ------------------------------------------- facade: inputs
\* the members of a response body that the handlers probe

EmptyBody ==
  [parseErr |-> FALSE, code |-> Absent, status |-> Absent, message |-> Absent,
   msg |-> Absent, data |-> Absent]

BadBody == [EmptyBody EXCEPT !.parseErr = TRUE]

\* an error envelope, as a gateway sends it along with an HTTP error status
ErrBody == [EmptyBody EXCEPT !.code = Num(404), !.status = Num(500), !.msg = Str("not found")]

OkBody(d) == [EmptyBody EXCEPT !.code = Num(200), !.data = d]

\* the responses to a facade request whose data member ranges over D
Bodies(D) ==
  [parseErr : {FALSE},
   code : {Absent, Num(200), Num(404), Str("404")},
   status : {Absent, Num(200), Num(500)},
   message : {Absent, Str("denied"), Num(1)},
   msg : {Absent, Str("not found")},
   data : D]

Responses(D) ==
  [neterr : {TRUE}, http : {0}, body : {EmptyBody}]
  \cup [neterr : {FALSE}, http : HttpStatuses \ {HttpOK},
        body : {EmptyBody, BadBody, ErrBody}]
  \cup [neterr : {FALSE}, http : {HttpOK}, body : {BadBody} \cup Bodies(D)]

OkResponses(D) == [neterr : {FALSE}, http : {HttpOK}, body : {OkBody(d) : d \in D}]

\* the elements of data.items
Timestamps == {Absent, Str(""), Str(TsFixed), Str(TsRFC3339), Str(TsGarbage)}

Items ==
  [id : {Absent, Num(5), Num(7), Str("x7")},
   name : {Absent, Str("a.txt")},
   size : {Absent, Num(10), Str("10")},
   type : {Absent, Str("folder"), Str("file")},
   created_at : Timestamps, uploaded_at : Timestamps]

FileItem(n) ==
  [id |-> Num(n), name |-> Str("a.txt"), size |-> Num(10), type |-> Str("file"),
   created_at |-> Absent, uploaded_at |-> Str(TsFixed2)]

FolderItem(n) ==
  [id |-> Num(n), name |-> Str("docs"), size |-> Num(10), type |-> Str("folder"),
   created_at |-> Str(TsFixed), uploaded_at |-> Absent]

MovedItem(n) ==
  [id |-> Num(n), name |-> Str("moved.txt"), size |-> Absent, type |-> Absent,
   created_at |-> Str(TsFixed), uploaded_at |-> Absent]

ItemSample == {Obj(FileItem(5)), Obj(FileItem(7)), Obj(FolderItem(7)), Num(1)}

MoveItemSample ==
  {Obj(MovedItem(5)), Obj(MovedItem(7)),
   Obj([MovedItem(5) EXCEPT !.name = Absent, !.created_at = Str(TsGarbage)]), Num(1)}

\* the sequences over S of length at most MaxItems
SeqsUpTo(S) == UNION {[1..n -> S] : n \in 0..MaxItems}

ListDataSmall ==
  {Absent, Str("x"), Obj([items |-> Absent]), Obj([items |-> Arr(<<>>)]),
   Obj([items |-> Arr(<<Obj(FileItem(5))>>)])}

ListDataItems ==
  {Obj([items |-> Arr(<<Obj(i)>>)]) : i \in Items}
  \cup {Obj([items |-> Arr(x)]) : x \in SeqsUpTo(ItemSample)}

LinkData ==
  {Absent}
  \cup {Obj(o) : o \in [download_link : {Absent, Str(""), Str("https://a")},
                        url : {Absent, Str(""), Str("https://b")}]}

MakeDirData == {Absent} \cup {Obj(o) : o \in [folder_id : {Absent, Num(9), Str("9")}]}

MoveDataSmall == {Absent, Obj([items |-> Arr(<<Obj(MovedItem(5))>>)])}

MoveDataItems ==
  {Obj([items |-> Absent])} \cup {Obj([items |-> Arr(x)]) : x \in SeqsUpTo(MoveItemSample)}

PutInitData ==
  {Absent}
  \cup {Obj(o) : o \in [csrf_token : {Absent, Str(""), Str("c1")},
                        file_key : {Absent, Str(""), Str("k1")}]}

\* the objects and names the host passes
SrcObjs == [id : {"5", "x7"}, name : {"old.txt"}, size : {10}, isDir : BOOLEAN]
NoSrc == [id |-> "", name |-> "", size |-> 0, isDir |-> FALSE]
Files == [name : {"f.bin"}, size : {3}]
NoFile == [name |-> "", size |-> 0]

\* what stream.CacheFullAndHash and the Seek after it can do

\* the responses to first_upload and to ok_upload

\* the upload requests: the endpoint and the two parameters of the form
FirstUpload == [url |-> "first_upload", csrf_token |-> "", file_key |-> ""]
OkUpload(csrf, key) == [url |-> "ok_upload", csrf_token |-> csrf, file_key |-> key]

\* the members of the first_upload response that Put reads
InitRead(r) ==
  [neterr |-> r.neterr, http |-> r.http, parseErr |-> r.body.parseErr,
   code |-> r.body.code,
   csrf_token |-> IF IsObj(r.body.data) THEN r.body.data[2].csrf_token ELSE Absent,
   file_key |-> IF IsObj(r.body.data) THEN r.body.data[2].file_key ELSE Absent]

\* the members of an operation's response that every handler reads
OpRead(r) ==
  [neterr |-> r.neterr, http |-> r.http, parseErr |-> r.body.parseErr,
   code |-> r.body.code, status |-> r.body.status]

NoOpResp ==
  [neterr |-> FALSE, http |-> 0, parseErr |-> FALSE, code |-> Absent, status |-> Absent]

\* the facade operations with one request, and the responses to it
OpNames == {"List", "Link", "MakeDir", "Move", "Rename", "Remove"}

OpResponses(name) == IF name = "Link" THEN Responses(LinkData) ELSE Responses({Absent})

\* the error the operation returns for the response r (it does not depend on
\* the objects and names the host passed)
OpErr(name, r, t) ==
  IF name = "List" THEN List(r, t).err
  ELSE IF name = "Link" THEN Link(r).err
  ELSE IF name = "MakeDir" THEN MakeDir(r, "dir", t).err
  ELSE IF name = "Move" THEN Move(r, NoSrc, t).err
  ELSE IF name = "Rename" THEN Rename(r, NoSrc, "new.txt", t).err
  ELSE Remove(r).err

NoInitResp ==
  [neterr |-> FALSE, http |-> 0, parseErr |-> FALSE, code |-> Absent,
   csrf_token |-> Absent, file_key |-> Absent]

NoInput ==
  [op |-> "none", resp |-> [neterr |-> FALSE, http |-> 0, body |-> EmptyBody],
   src |-> NoSrc, name |-> "", size |-> 0]

NoOutput == [err |-> "none", code |-> 0, message |-> "", val |-> <<>>]

InputsOf(name, R, S, N, Z) == [op : {name}, resp : R, src : S, name : N, size : Z]

MapInputs ==
  InputsOf("List", Responses(ListDataSmall) \cup OkResponses(ListDataItems),
           {NoSrc}, {""}, {0})
  \cup InputsOf("Link", Responses(LinkData), {NoSrc}, {""}, {0})
  \cup InputsOf("MakeDir", Responses(MakeDirData), {NoSrc}, {"dir"}, {0})
  \cup InputsOf("Move", Responses(MoveDataSmall) \cup OkResponses(MoveDataItems),
                SrcObjs, {""}, {0})
  \cup InputsOf("Rename", Responses({Absent}), SrcObjs, {"new.txt"}, {0})
  \cup InputsOf("Remove", Responses({Absent}), {NoSrc}, {""}, {0})
  \cup InputsOf("PutInit", Responses(PutInitData), {NoSrc}, {""}, {0})
  \cup InputsOf("PutComplete", Responses({Absent}), {NoSrc}, {"f.bin"}, {3})

\* --------------------------------------------------------------- Init
Init ==
  /\ APIKey \in APIKeys
  /\ APISecret \in APISecrets
  /\ AccessToken = ""
  /\ RefreshToken = ""
  /\ ExpiresAt = ZeroTime
  /\ client = "nil"
  /\ timeout = NoTimeout
  /\ now = ZeroTime + 1
  /\ pc = [p \in Procs |-> "idle"]
  /\ op = [p \in Procs |-> "none"]
  /\ pre = [p \in Procs |-> NoPre]
  /\ nRefresh = [p \in Procs |-> 0]
  /\ nAuth = [p \in Procs |-> 0]
  /\ refreshErr = [p \in Procs |-> NotCalled]
  /\ authErr = [p \in Procs |-> NotCalled]
  /\ refreshResp = [p \in Procs |-> NoRefreshResp]
  /\ authResp = [p \in Procs |-> NoAuthResp]
  /\ storedAt = [p \in Procs |-> ZeroTime]
  /\ retErr = [p \in Procs |-> NotCalled]
  /\ input = NoInput
  /\ output = NoOutput
  /\ file = [p \in Procs |-> NoFile]
  /\ sent = [p \in Procs |-> <<>>]
  /\ initResp = [p \in Procs |-> NoInitResp]
  /\ opErr = [p \in Procs |-> NotCalled]
  /\ opResp = [p \in Procs |-> NoOpResp]
  /\ serialized = TRUE

AllIdle == \A q \in Procs : pc[q] = "idle"

\* the history of a call that starts now
Enter(p, name) ==
  /\ op' = [op EXCEPT ![p] = name]
  /\ pre' = [pre EXCEPT ![p] = [at |-> AccessToken, rt |-> RefreshToken,
                               exp |-> ExpiresAt, now |-> now]]
  /\ nRefresh' = [nRefresh EXCEPT ![p] = 0]
  /\ nAuth' = [nAuth EXCEPT ![p] = 0]
  /\ refreshErr' = [refreshErr EXCEPT ![p] = NotCalled]
  /\ authErr' = [authErr EXCEPT ![p] = NotCalled]
  /\ refreshResp' = [refreshResp EXCEPT ![p] = NoRefreshResp]
  /\ authResp' = [authResp EXCEPT ![p] = NoAuthResp]
  /\ storedAt' = [storedAt EXCEPT ![p] = ZeroTime]
  /\ retErr' = [retErr EXCEPT ![p] = NotCalled]

\* ------------------------------------------------------------- actions
\* time passes
Tick ==
  /\ now < MaxTime
  /\ now' = now + 1
  /\ UNCHANGED <<config, session, client, timeout, pc, op, history>>
  /\ UNCHANGED mapio
  /\ UNCHANGED upload

\* Init: d.client = resty.New(), then authenticate
DriverInit(p) ==
  /\ client = "nil"
  /\ AllIdle
  /\ client' = "set"
  /\ timeout' = NoTimeout
  /\ pc' = [pc EXCEPT ![p] = "auth"]
  /\ Enter(p, "Init")
  /\ UNCHANGED <<config, session, now>>
  /\ UNCHANGED mapio
  /\ UNCHANGED upload

\* a facade operation enters refreshTokenIfNeeded and tests the expiry
Call(p) ==
  /\ client = "set"
  /\ AllIdle
  /\ Enter(p, "Op")
  /\ IF NeedsRefresh(now, ExpiresAt)
       THEN pc' = [pc EXCEPT ![p] = "refresh"]
       ELSE pc' = [pc EXCEPT ![p] = "ret"]
  /\ UNCHANGED <<config, session, client, timeout, now>>
  /\ UNCHANGED mapio
  /\ UNCHANGED upload

\* refreshToken up to the request: the refresh-token test, SetTimeout, Post
RefreshSend(p) ==
  /\ pc[p] = "refresh"
  /\ IF NoRefreshToken(RefreshToken)
       THEN /\ refreshErr' = [refreshErr EXCEPT ![p] = ErrNoRefreshToken]
            /\ pc' = [pc EXCEPT ![p] =
                      IF FallsBackToAuth(ErrNoRefreshToken) THEN "auth" ELSE "ret"]
            /\ UNCHANGED <<timeout, nRefresh>>
       ELSE /\ timeout' = DefaultTimeout
            /\ nRefresh' = [nRefresh EXCEPT ![p] = @ + 1]
            /\ pc' = [pc EXCEPT ![p] = "refresh_wait"]
            /\ UNCHANGED refreshErr
  /\ UNCHANGED <<config, session, client, now, op, pre, nAuth, authErr,
                 refreshResp, authResp, storedAt, retErr>>
  /\ UNCHANGED mapio
  /\ UNCHANGED upload

\* refreshToken from the response on
RefreshRecv(p, r) ==
  /\ pc[p] = "refresh_wait"
  /\ refreshResp' = [refreshResp EXCEPT ![p] =
                      IF RefreshOutcome(r) = Nil THEN r ELSE NoRefreshResp]
  /\ refreshErr' = [refreshErr EXCEPT ![p] = RefreshOutcome(r)]
  /\ IF RefreshOutcome(r) = Nil
       THEN /\ AccessToken' = RefreshStore(r, now, RefreshToken).at
            /\ RefreshToken' = RefreshStore(r, now, RefreshToken).rt
            /\ ExpiresAt' = RefreshStore(r, now, RefreshToken).exp
            /\ storedAt' = [storedAt EXCEPT ![p] = now]
       ELSE UNCHANGED <<session, storedAt>>
  /\ pc' = [pc EXCEPT ![p] = IF FallsBackToAuth(RefreshOutcome(r)) THEN "auth" ELSE "ret"]
  /\ UNCHANGED <<config, client, timeout, now, op, pre, nRefresh, nAuth, authErr,
                 authResp, retErr>>
  /\ UNCHANGED mapio
  /\ UNCHANGED upload

\* authenticate up to the request: the credentials test, SetTimeout, Get
AuthSend(p) ==
  /\ pc[p] = "auth"
  /\ IF CredsMissing(APIKey, APISecret)
       THEN /\ authErr' = [authErr EXCEPT ![p] = ErrNoCreds]
            /\ retErr' = [retErr EXCEPT ![p] = ReturnAfterAuth(refreshErr[p], ErrNoCreds)]
            /\ pc' = [pc EXCEPT ![p] = "ret"]
            /\ UNCHANGED <<timeout, nAuth>>
       ELSE /\ timeout' = DefaultTimeout
            /\ nAuth' = [nAuth EXCEPT ![p] = @ + 1]
            /\ pc' = [pc EXCEPT ![p] = "auth_wait"]
            /\ UNCHANGED <<authErr, retErr>>
  /\ UNCHANGED <<config, session, client, now, op, pre, nRefresh, refreshErr,
                 refreshResp, authResp, storedAt>>
  /\ UNCHANGED mapio
  /\ UNCHANGED upload

\* authenticate from the response on
AuthRecv(p, r) ==
  /\ pc[p] = "auth_wait"
  /\ authResp' = [authResp EXCEPT ![p] = r]
  /\ authErr' = [authErr EXCEPT ![p] = AuthOutcome(r)]
  /\ retErr' = [retErr EXCEPT ![p] = ReturnAfterAuth(refreshErr[p], AuthOutcome(r))]
  /\ IF AuthOutcome(r) = Nil
       THEN /\ AccessToken' = AuthStore(r, now).at
            /\ RefreshToken' = AuthStore(r, now).rt
            /\ ExpiresAt' = AuthStore(r, now).exp
            /\ storedAt' = [storedAt EXCEPT ![p] = now]
       ELSE UNCHANGED <<session, storedAt>>
  /\ pc' = [pc EXCEPT ![p] = "ret"]
  /\ UNCHANGED <<config, client, timeout, now, op, pre, nRefresh, nAuth, refreshErr,
                 refreshResp>>
  /\ UNCHANGED mapio
  /\ UNCHANGED upload

\* refreshTokenIfNeeded returns nil without having called authenticate
ReturnNil(p) ==
  /\ pc[p] = "ret"
  /\ retErr[p] = NotCalled
  /\ retErr' = [retErr EXCEPT ![p] = Nil]
  /\ pc' = [pc EXCEPT ![p] = "done"]
  /\ UNCHANGED <<config, session, client, timeout, now, op, pre, nRefresh, nAuth,
                 refreshErr, authErr, refreshResp, authResp, storedAt>>
  /\ UNCHANGED mapio
  /\ UNCHANGED upload

\* Init / refreshTokenIfNeeded returns what authenticate returned
ReturnAuth(p) ==
  /\ pc[p] = "ret"
  /\ retErr[p] # NotCalled
  /\ pc' = [pc EXCEPT ![p] = "done"]
  /\ UNCHANGED <<config, session, client, timeout, now, op, history>>
  /\ UNCHANGED mapio
  /\ UNCHANGED upload

\* the caller has its result
Finish(p) ==
  /\ pc[p] = "done"
  /\ pc' = [pc EXCEPT ![p] = "idle"]
  /\ op' = [op EXCEPT ![p] = "none"]
  /\ pre' = [pre EXCEPT ![p] = NoPre]
  /\ nRefresh' = [nRefresh EXCEPT ![p] = 0]
  /\ nAuth' = [nAuth EXCEPT ![p] = 0]
  /\ refreshErr' = [refreshErr EXCEPT ![p] = NotCalled]
  /\ authErr' = [authErr EXCEPT ![p] = NotCalled]
  /\ refreshResp' = [refreshResp EXCEPT ![p] = NoRefreshResp]
  /\ authResp' = [authResp EXCEPT ![p] = NoAuthResp]
  /\ storedAt' = [storedAt EXCEPT ![p] = ZeroTime]
  /\ retErr' = [retErr EXCEPT ![p] = NotCalled]
  /\ file' = [file EXCEPT ![p] = NoFile]
  /\ sent' = [sent EXCEPT ![p] = <<>>]
  /\ initResp' = [initResp EXCEPT ![p] = NoInitResp]
  /\ opErr' = [opErr EXCEPT ![p] = NotCalled]
  /\ opResp' = [opResp EXCEPT ![p] = NoOpResp]
  /\ UNCHANGED <<config, session, client, timeout, now>>
  /\ UNCHANGED mapio

\* what a request is sent with: the bearer token of the Authorization header
\* and the client's timeout at that moment
SentWith == [token |-> AccessToken, timeout |-> timeout]

\* Put after refreshTokenIfNeeded returned nil: SetTimeout(10 * time.Minute).
\* The call of refreshTokenIfNeeded is over, and so is its history.
PutBegin(p, f) ==
  /\ pc[p] = "done"
  /\ op[p] = "Op"
  /\ retErr[p] = Nil
  /\ op' = [op EXCEPT ![p] = "Put"]
  /\ file' = [file EXCEPT ![p] = f]
  /\ timeout' = UploadTimeout
  /\ pc' = [pc EXCEPT ![p] = "put_hash"]
  /\ pre' = [pre EXCEPT ![p] = NoPre]
  /\ nRefresh' = [nRefresh EXCEPT ![p] = 0]
  /\ nAuth' = [nAuth EXCEPT ![p] = 0]
  /\ refreshErr' = [refreshErr EXCEPT ![p] = NotCalled]
  /\ authErr' = [authErr EXCEPT ![p] = NotCalled]
  /\ refreshResp' = [refreshResp EXCEPT ![p] = NoRefreshResp]
  /\ authResp' = [authResp EXCEPT ![p] = NoAuthResp]
  /\ storedAt' = [storedAt EXCEPT ![p] = ZeroTime]
  /\ retErr' = [retErr EXCEPT ![p] = NotCalled]
  /\ UNCHANGED <<config, session, client, now, sent, initResp, opErr, opResp>>
  /\ UNCHANGED mapio

\* Put from CacheFullAndHash to the first_upload request
PutHash(p, h) ==
  /\ pc[p] = "put_hash"
  /\ IF h # Nil
       THEN /\ opErr' = [opErr EXCEPT ![p] = h]
            /\ pc' = [pc EXCEPT ![p] = "done"]
            /\ UNCHANGED sent
       ELSE /\ sent' = [sent EXCEPT ![p] = Append(@, FirstUpload @@ SentWith)]
            /\ pc' = [pc EXCEPT ![p] = "put_init_wait"]
            /\ UNCHANGED opErr
  /\ UNCHANGED <<config, session, client, timeout, now, op, history, file, initResp,
                 opResp>>
  /\ UNCHANGED mapio

\* Put from the first_upload response to the ok_upload request
PutInitRecv(p, r) ==
  /\ pc[p] = "put_init_wait"
  /\ initResp' = [initResp EXCEPT ![p] = InitRead(r)]
  /\ IF PutInit(r).err # Nil
       THEN /\ timeout' = DefaultTimeout
            /\ opErr' = [opErr EXCEPT ![p] = PutInit(r).err]
            /\ pc' = [pc EXCEPT ![p] = "done"]
            /\ UNCHANGED sent
       ELSE /\ sent' = [sent EXCEPT ![p] =
                         Append(@, OkUpload(PutInit(r).val.csrfToken, PutInit(r).val.fileKey)
                                     @@ SentWith)]
            /\ pc' = [pc EXCEPT ![p] = "put_complete_wait"]
            /\ UNCHANGED <<timeout, opErr>>
  /\ UNCHANGED <<config, session, client, now, op, history, file, opResp>>
  /\ UNCHANGED mapio

\* Put from the ok_upload response on: SetTimeout(30 * time.Second), the result
PutCompleteRecv(p, r) ==
  /\ pc[p] = "put_complete_wait"
  /\ timeout' = DefaultTimeout
  /\ opErr' = [opErr EXCEPT ![p] = PutComplete(r, file[p], now).err]
  /\ pc' = [pc EXCEPT ![p] = "done"]
  /\ UNCHANGED <<config, session, client, now, op, history, file, sent, initResp,
                 opResp>>
  /\ UNCHANGED mapio

\* if err := d.refreshTokenIfNeeded(); err != nil { return ... }
ProceedsAfterRefreshAlways(err) == TRUE

ProceedsAfterRefresh(err) == err = Nil

\* every exit of a handler after its request is a return
OpNextRetrySend(e) == IF e = ErrOpSend THEN "op_send" ELSE "done"

OpNext(e) == "done"

\* a one-request operation after refreshTokenIfNeeded returned: it goes on to
\* build its request.  The call of refreshTokenIfNeeded is over, and so is
\* its history.
OpBegin(p, name) ==
  /\ pc[p] = "done"
  /\ op[p] = "Op"
  /\ retErr[p] # NotCalled
  /\ ProceedsAfterRefresh(retErr[p])
  /\ op' = [op EXCEPT ![p] = name]
  /\ pc' = [pc EXCEPT ![p] = "op_send"]
  /\ pre' = [pre EXCEPT ![p] = NoPre]
  /\ nRefresh' = [nRefresh EXCEPT ![p] = 0]
  /\ nAuth' = [nAuth EXCEPT ![p] = 0]
  /\ refreshErr' = [refreshErr EXCEPT ![p] = NotCalled]
  /\ authErr' = [authErr EXCEPT ![p] = NotCalled]
  /\ refreshResp' = [refreshResp EXCEPT ![p] = NoRefreshResp]
  /\ authResp' = [authResp EXCEPT ![p] = NoAuthResp]
  /\ storedAt' = [storedAt EXCEPT ![p] = ZeroTime]
  /\ retErr' = [retErr EXCEPT ![p] = NotCalled]
  /\ UNCHANGED <<config, session, client, timeout, now>>
  /\ UNCHANGED mapio
  /\ UNCHANGED upload

\* the operation sends its request with the stored access token
OpSend(p) ==
  /\ pc[p] = "op_send"
  /\ sent' = [sent EXCEPT ![p] =
               Append(@, [url |-> op[p]] @@ SentWith)]
  /\ pc' = [pc EXCEPT ![p] = "op_wait"]
  /\ UNCHANGED <<config, session, client, timeout, now, op, history, file, initResp,
                 opErr, opResp>>
  /\ UNCHANGED mapio

\* the operation from its response on
OpRecv(p, r) ==
  /\ pc[p] = "op_wait"
  /\ opResp' = [opResp EXCEPT ![p] = OpRead(r)]
  /\ opErr' = [opErr EXCEPT ![p] = OpErr(op[p], r, now)]
  /\ pc' = [pc EXCEPT ![p] = OpNext(OpErr(op[p], r, now))]
  /\ UNCHANGED <<config, session, client, timeout, now, op, history, file, sent, initResp>>
  /\ UNCHANGED mapio

Next ==
  \/ Tick
  \/ \E p \in Procs : DriverInit(p)
  \/ \E p \in Procs : Call(p)
  \/ \E p \in Procs : RefreshSend(p)
  \/ \E p \in Procs, r \in RefreshResponses : RefreshRecv(p, r)
  \/ \E p \in Procs : AuthSend(p)
  \/ \E p \in Procs, r \in AuthResponses : AuthRecv(p, r)
  \/ \E p \in Procs : ReturnNil(p)
  \/ \E p \in Procs : ReturnAuth(p)
  \/ \E p \in Procs : Finish(p)
  \/ \E p \in Procs, f \in Files : PutBegin(p, f)
  \/ \E p \in Procs, h \in {Nil, ErrHash, ErrSeek} : PutHash(p, h)
  \/ \E p \in Procs, r \in Responses(PutInitData) : PutInitRecv(p, r)
  \/ \E p \in Procs, r \in Responses({Absent}) : PutCompleteRecv(p, r)
  \/ \E p \in Procs, name \in OpNames : OpBegin(p, name)
  \/ \E p \in Procs : OpSend(p)
  \/ \E p \in Procs : \E r \in OpResponses(op[p]) : OpRecv(p, r)

Spec == Init /\ [][Next]_vars

\* ------------------------------------------- the handlers applied to inputs
\* The state in which the handlers are applied: the driver after
\* construction, no call in progress.
Quiescent ==
  /\ APIKey = "key"
  /\ APISecret = "secret"
  /\ AccessToken = ""
  /\ RefreshToken = ""
  /\ ExpiresAt = ZeroTime
  /\ client = "nil"
  /\ timeout = NoTimeout
  /\ now = ZeroTime + 1
  /\ pc = [p \in Procs |-> "idle"]
  /\ op = [p \in Procs |-> "none"]
  /\ pre = [p \in Procs |-> NoPre]
  /\ nRefresh = [p \in Procs |-> 0]
  /\ nAuth = [p \in Procs |-> 0]
  /\ refreshErr = [p \in Procs |-> NotCalled]
  /\ authErr = [p \in Procs |-> NotCalled]
  /\ refreshResp = [p \in Procs |-> NoRefreshResp]
  /\ authResp = [p \in Procs |-> NoAuthResp]
  /\ storedAt = [p \in Procs |-> ZeroTime]
  /\ retErr = [p \in Procs |-> NotCalled]
  /\ file = [p \in Procs |-> NoFile]
  /\ sent = [p \in Procs |-> <<>>]
  /\ initResp = [p \in Procs |-> NoInitResp]
  /\ opErr = [p \in Procs |-> NotCalled]
  /\ opResp = [p \in Procs |-> NoOpResp]
  /\ serialized = TRUE

InitMap ==
  /\ Quiescent
  /\ input \in MapInputs
  /\ output = NoOutput

Apply(name, result) ==
  /\ input.op = name
  /\ output = NoOutput
  /\ output' = result
  /\ UNCHANGED <<config, session, client, timeout, now, pc, op, history, input>>
  /\ UNCHANGED upload

NextMap ==
  \/ Apply("List", List(input.resp, now))
  \/ Apply("Link", Link(input.resp))
  \/ Apply("MakeDir", MakeDir(input.resp, input.name, now))
  \/ Apply("Move", Move(input.resp, input.src, now))
  \/ Apply("Rename", Rename(input.resp, input.src, input.name, now))
  \/ Apply("Remove", Remove(input.resp))
  \/ Apply("PutInit", PutInit(input.resp))
  \/ Apply("PutComplete",
           PutComplete(input.resp, [name |-> input.name, size |-> input.size], now))

SpecMap == InitMap /\ [][NextMap]_vars

\* ------------------------------------------- two callers on one instance
\* The driver takes no lock: whether calls overlap is up to the host
\* (serialized).  Two callers, a configured driver, and of every response
\* kind one that succeeds and one that fails.
Callers == {1, 2}

InitPar ==
  /\ APIKey = "key"
  /\ APISecret = "secret"
  /\ serialized \in BOOLEAN
  /\ AccessToken = ""
  /\ RefreshToken = ""
  /\ ExpiresAt = ZeroTime
  /\ client = "nil"
  /\ timeout = NoTimeout
  /\ now = ZeroTime + 1
  /\ pc = [p \in Callers |-> "idle"]
  /\ op = [p \in Callers |-> "none"]
  /\ pre = [p \in Callers |-> NoPre]
  /\ nRefresh = [p \in Callers |-> 0]
  /\ nAuth = [p \in Callers |-> 0]
  /\ refreshErr = [p \in Callers |-> NotCalled]
  /\ authErr = [p \in Callers |-> NotCalled]
  /\ refreshResp = [p \in Callers |-> NoRefreshResp]
  /\ authResp = [p \in Callers |-> NoAuthResp]
  /\ storedAt = [p \in Callers |-> ZeroTime]
  /\ retErr = [p \in Callers |-> NotCalled]
  /\ input = NoInput
  /\ output = NoOutput
  /\ file = [p \in Callers |-> NoFile]
  /\ sent = [p \in Callers |-> <<>>]
  /\ initResp = [p \in Callers |-> NoInitResp]
  /\ opErr = [p \in Callers |-> NotCalled]
  /\ opResp = [p \in Callers |-> NoOpResp]

ParAuthResponses ==
  {r \in AuthResponses :
     \/ r.neterr
     \/ (r.http = HttpOK /\ ~r.parseErr /\ r.status = StatusOK
           /\ r.message = AuthSuccessMessage /\ r.at = "a1" /\ r.rt = "r1"
           /\ r.expiresIn \in {0, 2})}

ParRefreshResponses ==
  {r \in RefreshResponses :
     \/ r.neterr
     \/ (r.http = HttpOK /\ ~r.parseErr /\ r.success /\ r.status = StatusOK
           /\ r.message = "ok" /\ r.at = "a2" /\ r.rt = "" /\ r.expiresIn = 2)}

ParOpResponses(D) ==
  {r \in Responses(D) : r.neterr} \cup OkResponses(D)

\* a facade operation enters refreshTokenIfNeeded, whatever the other caller
\* is doing unless the host serializes the calls
CallPar(p) ==
  /\ client = "set"
  /\ pc[p] = "idle"
  /\ serialized => \A q \in Callers : pc[q] = "idle"
  /\ Enter(p, "Op")
  /\ IF NeedsRefresh(now, ExpiresAt)
       THEN pc' = [pc EXCEPT ![p] = "refresh"]
       ELSE pc' = [pc EXCEPT ![p] = "ret"]
  /\ UNCHANGED <<config, session, client, timeout, now>>
  /\ UNCHANGED mapio
  /\ UNCHANGED upload

NextPar ==
  \/ Tick
  \/ DriverInit(1)
  \/ \E p \in Callers : CallPar(p)
  \/ \E p \in Callers : RefreshSend(p)
  \/ \E p \in Callers, r \in ParRefreshResponses : RefreshRecv(p, r)
  \/ \E p \in Callers : AuthSend(p)
  \/ \E p \in Callers, r \in ParAuthResponses : AuthRecv(p, r)
  \/ \E p \in Callers : ReturnNil(p)
  \/ \E p \in Callers : ReturnAuth(p)
  \/ \E p \in Callers : Finish(p)
  \/ \E p \in Callers, f \in Files : PutBegin(p, f)
  \/ \E p \in Callers, h \in {Nil, ErrHash} : PutHash(p, h)
  \/ \E p \in Callers, r \in ParOpResponses({Obj([csrf_token |-> Str("c1"),
                                                  file_key |-> Str("k1")])}) :
       PutInitRecv(p, r)
  \/ \E p \in Callers, r \in ParOpResponses({Absent}) : PutCompleteRecv(p, r)
  \/ \E p \in Callers : OpBegin(p, "List")
  \/ \E p \in Callers : OpSend(p)
  \/ \E p \in Callers, r \in ParOpResponses({Absent}) : OpRecv(p, r)

SpecPar == InitPar /\ [][NextPar]_vars

TypeOK ==
  /\ APIKey \in APIKeys
  /\ APISecret \in APISecrets
  /\ AccessToken \in AccessTokens
  /\ RefreshToken \in RefreshTokens
  /\ ExpiresAt \in Int
  /\ client \in {"nil", "set"}
  /\ timeout \in {NoTimeout, DefaultTimeout, UploadTimeout}
  /\ now \in (ZeroTime + 1)..MaxTime
  /\ pc \in [Procs -> {"idle", "refresh", "refresh_wait", "auth", "auth_wait", "ret", "done",
                        "put_hash", "put_init_wait", "put_complete_wait",
                        "op_send", "op_wait"}]
  /\ op \in [Procs -> {"none", "Init", "Op", "Put"} \cup OpNames]
  /\ serialized \in BOOLEAN
  /\ file \in [Procs -> Files \cup {NoFile}]
  /\ \A p \in Procs : Len(sent[p]) <= 2

\* ------------------------------------------------------------ properties
Failed(e) == e \notin {Nil, NotCalled}

PreSession(p) == [at |-> pre[p].at, rt |-> pre[p].rt, exp |-> pre[p].exp]

\* the call has entered refreshToken
RefreshAttempted(p) == pc[p] \in {"refresh", "refresh_wait"} \/ refreshErr[p] # NotCalled

\* C1: a facade call that finds expiresAt strictly in the future sends no
\* refresh and no authenticate request, returns nil, and leaves accessToken,
\* refreshToken and expiresAt as they were at entry.
C1_FutureExpiryNoRequest ==
  \A p \in Procs :
    (op[p] = "Op" /\ pre[p].now < pre[p].exp) =>
      /\ pc[p] \in {"ret", "done"}
      /\ nRefresh[p] = 0 /\ nAuth[p] = 0
      /\ refreshErr[p] = NotCalled /\ authErr[p] = NotCalled
      /\ retErr[p] \in {NotCalled, Nil}
      /\ (pc[p] = "done" => retErr[p] = Nil)
      /\ Session = PreSession(p)

C1_Witness ==
  \E p \in Procs :
    /\ op[p] = "Op" /\ pc[p] = "done" /\ retErr[p] = Nil
    /\ pre[p].now < pre[p].exp /\ pre[p].at # ""

\* C2: when the expiry has passed and refreshToken succeeds, the call has sent
\* exactly one refresh request and no authenticate request.
C2_RefreshOnceNoAuth ==
  \A p \in Procs :
    /\ nRefresh[p] <= 1
    /\ refreshErr[p] = Nil =>
         /\ pre[p].now > pre[p].exp
         /\ nRefresh[p] = 1 /\ nAuth[p] = 0
         /\ authErr[p] = NotCalled
         /\ pc[p] \in {"ret", "done"}

C2_Witness ==
  \E p \in Procs :
    /\ op[p] = "Op" /\ pc[p] = "done" /\ refreshErr[p] = Nil /\ nRefresh[p] = 1

\* C3 as stated: after a failed refresh and a successful authenticate the call
\* returns nil, the stored access token is the one authenticate received, it
\* is non-empty, and it is not expired when it is stored.
C3_Original ==
  \A p \in Procs :
    (op[p] = "Op" /\ Failed(refreshErr[p]) /\ authErr[p] = Nil) =>
      /\ pc[p] \in {"ret", "done"}
      /\ retErr[p] = Nil
      /\ AccessToken = authResp[p].at
      /\ AccessToken # ""
      /\ ~NeedsRefresh(storedAt[p], ExpiresAt)

\* C3 amended: the same, but the stored token is unexpired only when the
\* response's expiresIn is not negative (strictly in the future when positive).
C3_FallbackAuthenticates ==
  \A p \in Procs :
    (op[p] = "Op" /\ Failed(refreshErr[p]) /\ authErr[p] = Nil) =>
      /\ pc[p] \in {"ret", "done"}
      /\ retErr[p] = Nil
      /\ AccessToken = authResp[p].at
      /\ AccessToken # ""
      /\ (authResp[p].expiresIn >= 0 <=> ~NeedsRefresh(storedAt[p], ExpiresAt))
      /\ (authResp[p].expiresIn > 0 <=> storedAt[p] < ExpiresAt)

C3_Witness ==
  \E p \in Procs :
    /\ op[p] = "Op" /\ pc[p] = "done" /\ retErr[p] = Nil
    /\ Failed(refreshErr[p]) /\ nRefresh[p] = 1 /\ authErr[p] = Nil
    /\ pre[p].at # "" /\ AccessToken # pre[p].at
    /\ authResp[p].expiresIn > 0

\* C4: refreshTokenIfNeeded returns an error exactly when the expiry had
\* passed, refreshToken failed and authenticate failed too; the error is
\* authenticate's, and no error is returned when authenticate succeeded.
C4_FailureIffBothFail ==
  \A p \in Procs :
    (op[p] = "Op" /\ pc[p] = "done") =>
      /\ Failed(retErr[p]) <=>
           (pre[p].now > pre[p].exp /\ Failed(refreshErr[p]) /\ Failed(authErr[p]))
      /\ Failed(retErr[p]) => retErr[p] = authErr[p]
      /\ authErr[p] = Nil => retErr[p] = Nil
      /\ retErr[p] # NotCalled

C4_Witness ==
  \E p \in Procs :
    /\ op[p] = "Op" /\ pc[p] = "done" /\ Failed(retErr[p])
    /\ nRefresh[p] = 1 /\ nAuth[p] = 1

\* C5 as stated: a call made at or after expiresAt (equality included)
\* attempts refreshToken.
C5_Original ==
  \A p \in Procs :
    (op[p] = "Op" /\ pre[p].now >= pre[p].exp) =>
      RefreshAttempted(p)

\* C5 amended: a call attempts refreshToken exactly when the current time is
\* strictly after expiresAt; at equality it attempts none.
C5_RefreshIffStrictlyAfter ==
  \A p \in Procs :
    op[p] = "Op" =>
      (RefreshAttempted(p) <=> pre[p].now > pre[p].exp)

C5_Witness ==
  \E p \in Procs :
    /\ op[p] = "Op" /\ pc[p] = "done" /\ pre[p].now = pre[p].exp
    /\ pre[p].at # "" /\ nRefresh[p] = 0 /\ refreshErr[p] = NotCalled

\* C6: with the API key or the API secret empty, authenticate (from Init or
\* as the fallback) returns the configuration error without sending a
\* request and without touching the session; that error has no other cause.
C6_MissingCredsNoRequest ==
  \A p \in Procs :
    /\ (APIKey = "" \/ APISecret = "") =>
         /\ nAuth[p] = 0 /\ pc[p] # "auth_wait"
         /\ authErr[p] \in {NotCalled, ErrNoCreds}
         /\ (op[p] = "Init" /\ pc[p] \in {"ret", "done"}) => retErr[p] = ErrNoCreds
    /\ authErr[p] = ErrNoCreds =>
         /\ (APIKey = "" \/ APISecret = "")
         /\ nAuth[p] = 0
         /\ retErr[p] = ErrNoCreds
         /\ Session = PreSession(p)

C6_Witness ==
  \E p \in Procs :
    /\ op[p] = "Init" /\ pc[p] = "done" /\ retErr[p] = ErrNoCreds
    /\ APIKey # "" /\ APISecret = ""

\* what C7 lists as the causes of failure
C7_ListedFailure(r) ==
  \/ r.neterr
  \/ r.http # HttpOK
  \/ (r.status # StatusOK /\ r.message # AuthSuccessMessage)
  \/ r.at = ""
  \/ r.rt = ""

\* C7 as stated: an authenticate that sent its request fails exactly on a
\* transport error, an HTTP status other than 200, a status code other than
\* 200 without the success message, or an empty access or refresh token.
C7_Original ==
  \A p \in Procs :
    (nAuth[p] = 1 /\ authErr[p] # NotCalled) =>
      (Failed(authErr[p]) <=> C7_ListedFailure(authResp[p]))

\* C7 amended: the same causes, or a body that json.Unmarshal rejects.
C7_AuthFailureCauses ==
  \A p \in Procs :
    (nAuth[p] = 1 /\ authErr[p] # NotCalled) =>
      (Failed(authErr[p]) <=> (C7_ListedFailure(authResp[p]) \/ authResp[p].parseErr))

C7_Witness ==
  \E p \in Procs :
    /\ authErr[p] = Nil /\ authResp[p].status # StatusOK
    /\ authResp[p].message = AuthSuccessMessage

\* C8: the step in which authenticate succeeds sets accessToken and
\* refreshToken to the response's tokens and expiresAt to now + expiresIn.
C8_AuthStoresResponse ==
  [][\A p \in Procs :
       (pc[p] = "auth_wait" /\ authErr'[p] = Nil) =>
         /\ AccessToken' = authResp'[p].at
         /\ RefreshToken' = authResp'[p].rt
         /\ ExpiresAt' = now + authResp'[p].expiresIn]_vars

C8_Witness ==
  \E p \in Procs :
    /\ pc[p] = "ret" /\ authErr[p] = Nil /\ authResp[p].expiresIn = 2
    /\ storedAt[p] > ZeroTime + 1 /\ ExpiresAt = storedAt[p] + 2

\* C9: with no refresh token held, refreshToken fails without sending a
\* request and refreshTokenIfNeeded goes on to authenticate.
C9_NoRefreshTokenFallsThrough ==
  \A p \in Procs :
    /\ refreshErr[p] = ErrNoRefreshToken =>
         /\ pre[p].rt = ""
         /\ nRefresh[p] = 0
         /\ (pc[p] = "auth" \/ authErr[p] # NotCalled \/ nAuth[p] = 1)
    /\ (refreshErr[p] # NotCalled /\ pre[p].rt = "") =>
         refreshErr[p] = ErrNoRefreshToken

C9_Witness ==
  \E p \in Procs :
    /\ op[p] = "Op" /\ refreshErr[p] = ErrNoRefreshToken
    /\ nRefresh[p] = 0 /\ nAuth[p] = 1 /\ pc[p] = "done"

\* C10: after a successful refresh, accessToken and expiresAt come from the
\* response, and refreshToken is the response's refresh token when it
\* supplies a non-empty one and the previous refresh token otherwise.
C10_RefreshStoresResponse ==
  \A p \in Procs :
    refreshErr[p] = Nil =>
      /\ AccessToken = refreshResp[p].at
      /\ ExpiresAt = storedAt[p] + refreshResp[p].expiresIn
      /\ RefreshToken = IF refreshResp[p].rt # "" THEN refreshResp[p].rt ELSE pre[p].rt

\* ---------------------------------------------- properties of the handlers
\* the handler of operation name has been applied to the input
Applied(name) == input.op = name /\ output.err # "none"

\* the response arrived with HTTP 200 and a body that parsed
Transported == ~input.resp.neterr /\ input.resp.http = 200 /\ ~input.resp.body.parseErr

FacadeOps == {"List", "Link", "MakeDir", "Move", "Rename", "Remove", "PutInit", "PutComplete"}

\* the member C11 says each operation reads its code from
C11_ClaimedField(name) ==
  IF name \in {"List", "MakeDir", "Move", "Rename", "Remove"} THEN "code" ELSE "status"

\* the member each operation does read its code from
C11_ReadField(name) ==
  IF name \in {"List", "MakeDir", "Move", "Remove", "PutInit", "PutComplete"}
    THEN "code" ELSE "status"

\* C11 as stated: an HTTP-200 response whose code, under "code" for list,
\* create-folder, move, rename and delete and under "status" for
\* download-link and the upload calls, is not 200 makes the operation fail.
C11_Original ==
  \A name \in FacadeOps :
    (Applied(name) /\ Transported
       /\ input.resp.body[C11_ClaimedField(name)][1] = "num"
       /\ input.resp.body[C11_ClaimedField(name)][2] # 200)
      => output.err # Nil

\* C11 amended: the code is read under "code" for list, create-folder, move,
\* delete and both upload calls and under "status" for download-link and
\* rename; the operation returns the API error, carrying that code, exactly
\* when that member is a number other than 200.
C11_AppCodeFails ==
  \A name \in FacadeOps :
    (Applied(name) /\ Transported) =>
      /\ output.err = ErrOpApi <=>
           (input.resp.body[C11_ReadField(name)][1] = "num"
              /\ input.resp.body[C11_ReadField(name)][2] # 200)
      /\ output.err = ErrOpApi => output.code = input.resp.body[C11_ReadField(name)][2]

C11_Witness ==
  /\ Applied("Rename") /\ Transported
  /\ input.resp.body.status = Num(500) /\ input.resp.body.code = Num(200)
  /\ output.err = ErrOpApi /\ output.code = 500

C12_Has(f) == input.resp.body[f][1] = "str"

\* C12 as stated: the API error's message is "message" when only that is
\* present, "msg" when only that is present, and "unknown error" exactly when
\* both are absent.
C12_Original ==
  \A name \in FacadeOps :
    (Applied(name) /\ output.err = ErrOpApi) =>
      /\ (C12_Has("message") /\ ~C12_Has("msg")) => output.message = input.resp.body.message[2]
      /\ (C12_Has("msg") /\ ~C12_Has("message")) => output.message = input.resp.body.msg[2]
      /\ output.message = "unknown error" <=> (~C12_Has("message") /\ ~C12_Has("msg"))

\* the message an operation that probes the members fs, in that order, reports
C12_Expected(fs) ==
  IF Len(fs) >= 1 /\ C12_Has(fs[1]) THEN input.resp.body[fs[1]][2]
  ELSE IF Len(fs) >= 2 /\ C12_Has(fs[2]) THEN input.resp.body[fs[2]][2]
  ELSE "unknown error"

\* the members each operation probes for the message
C12_Probed(name) ==
  IF name \in {"List", "Link", "Rename"} THEN <<"message">>
  ELSE IF name \in {"Remove", "PutInit"} THEN <<"msg">>
  ELSE IF name \in {"MakeDir", "PutComplete"} THEN <<"msg", "message">>
  ELSE <<"message", "msg">>

\* C12 amended: each operation takes the message from the members it probes
\* (list, download-link, rename: "message"; delete, upload-init: "msg";
\* create-folder, upload-complete: "msg" then "message"; move: "message" then
\* "msg"), the first that is a string, and "unknown error" when none is.
C12_MessagePerOperation ==
  \A name \in FacadeOps :
    (Applied(name) /\ output.err = ErrOpApi) =>
      output.message = C12_Expected(C12_Probed(name))

C12_Witness ==
  /\ Applied("List") /\ output.err = ErrOpApi /\ output.code = 404
  /\ input.resp.body.msg = Str("not found") /\ input.resp.body.message = Absent
  /\ output.message = "unknown error"

\* the elements of the listing that are objects, in order
ListedObjs ==
  IF input.resp.body.data[1] = "obj" /\ input.resp.body.data[2].items[1] = "arr"
    THEN SelectSeq(input.resp.body.data[2].items[2], LAMBDA v : v[1] = "obj")
    ELSE <<>>

ListSucceeded == Applied("List") /\ output.err = Nil

\* C13: a listing item whose type is "folder" maps to an object with
\* isFolder = true and size = 0, whatever its size member.
C13_FolderSizeZero ==
  ListSucceeded =>
    /\ Len(output.val) = Len(ListedObjs)
    /\ \A i \in 1..Len(ListedObjs) :
         ListedObjs[i][2].type = Str("folder") =>
           (output.val[i].IsFolder /\ output.val[i].Size = 0)

\* the timestamp member List reads for the i-th object
C14_Stamp(i) ==
  IF ListedObjs[i][2].type = Str("folder")
    THEN ListedObjs[i][2].created_at ELSE ListedObjs[i][2].uploaded_at

\* C14 as stated: an RFC 3339 value maps to its instant, else a value of the
\* fixed layout maps to its instant, else the current time; no item is
\* dropped and the listing does not fail.
C14_Original ==
  (Applied("List") /\ Transported /\ output.err # ErrOpApi) =>
    /\ output.err = Nil
    /\ Len(output.val) = Len(ListedObjs)
    /\ \A i \in 1..Len(ListedObjs) :
         output.val[i].Modified =
           IF C14_Stamp(i) \in {Str(TsRFC3339), Str(TsFixed), Str(TsFixed2)}
             THEN InstantOf[C14_Stamp(i)[2]] ELSE now

\* C14 amended: only a value of the fixed layout maps to its instant; every
\* other value (RFC 3339 included, empty, absent, unparseable) maps to the
\* current time; no item is dropped and the listing does not fail.
C14_TimestampMapping ==
  (Applied("List") /\ Transported /\ output.err # ErrOpApi) =>
    /\ output.err = Nil
    /\ Len(output.val) = Len(ListedObjs)
    /\ \A i \in 1..Len(ListedObjs) :
         output.val[i].Modified =
           IF C14_Stamp(i) \in {Str(TsFixed), Str(TsFixed2)}
             THEN InstantOf[C14_Stamp(i)[2]] ELSE now

C14_Witness ==
  /\ ListSucceeded /\ Len(ListedObjs) = 1
  /\ C14_Stamp(1) = Str(TsRFC3339)
  /\ output.val[1].Modified = now

\* the decimal rendering of the numeric ids of the inputs
C15_Decimal(v) == IF v = Num(5) THEN "5" ELSE IF v = Num(7) THEN "7" ELSE ""

\* C15 as stated: a numeric id maps to its decimal string, a string id to
\* that string, and an item that has an id never gets the empty identifier.
C15_Original ==
  ListSucceeded =>
    /\ Len(output.val) = Len(ListedObjs)
    /\ \A i \in 1..Len(ListedObjs) :
         /\ ListedObjs[i][2].id[1] = "num" =>
              output.val[i].ID = C15_Decimal(ListedObjs[i][2].id)
         /\ ListedObjs[i][2].id[1] = "str" => output.val[i].ID = ListedObjs[i][2].id[2]
         /\ ListedObjs[i][2].id # Absent => output.val[i].ID # ""

\* C15 amended: a numeric id maps to its decimal string without a fraction;
\* any other id, a string id included, maps to the empty identifier.
C15_IdentifierMapping ==
  ListSucceeded =>
    /\ Len(output.val) = Len(ListedObjs)
    /\ \A i \in 1..Len(ListedObjs) :
         output.val[i].ID =
           IF ListedObjs[i][2].id[1] = "num" THEN C15_Decimal(ListedObjs[i][2].id) ELSE ""

C15_Witness ==
  /\ ListSucceeded /\ Len(ListedObjs) = 1
  /\ ListedObjs[1][2].id = Str("x7") /\ output.val[1].ID = ""

\* C16: a successful listing has one object per object of data.items, in
\* the same order; an empty items array gives the empty collection, no error.
C16_OneObjectPerItem ==
  (Applied("List") /\ Transported /\ output.err # ErrOpApi) =>
    /\ output.err = Nil
    /\ Len(output.val) = Len(ListedObjs)
    /\ \A i \in 1..Len(ListedObjs) :
         /\ output.val[i].ID = C15_Decimal(ListedObjs[i][2].id)
         /\ output.val[i].Name =
              IF ListedObjs[i][2].name[1] = "str" THEN ListedObjs[i][2].name[2] ELSE ""
         /\ output.val[i].IsFolder = (ListedObjs[i][2].type = Str("folder"))

C16_Witness ==
  /\ ListSucceeded
  /\ Len(ListedObjs) = 2 /\ Len(output.val) = 2
  /\ ListedObjs[1] = Obj(FolderItem(7)) /\ ListedObjs[2] = Obj(FileItem(5))
  /\ output.val[1].ID = "7" /\ output.val[1].IsFolder
  /\ output.val[2].ID = "5" /\ ~output.val[2].IsFolder

\* the non-empty strings the response's data offers as the link
C17_Offered ==
  IF input.resp.body.data[1] # "obj" THEN {}
  ELSE {v[2] : v \in {w \in {input.resp.body.data[2].download_link,
                              input.resp.body.data[2].url} : w[1] = "str"}} \ {""}

C20_Matches(item) ==
  /\ item[1] = "obj"
  /\ \/ (item[2].id = Num(5) /\ input.src.id = "5")
     \/ (item[2].id = Num(7) /\ input.src.id = "7")

\* the elements of the move response's data.items
C20_Items ==
  IF input.resp.body.data[1] = "obj" /\ input.resp.body.data[2].items[1] = "arr"
    THEN input.resp.body.data[2].items[2] ELSE <<>>

\* the positions of the response items that describe the moved object
C20_Hits == {i \in 1..Len(C20_Items) : C20_Matches(C20_Items[i])}

C20_First == CHOOSE i \in C20_Hits : \A j \in C20_Hits : i <= j

\* C20 as stated: on success move and rename return a copy of the supplied
\* object whatever the response body holds: id, size and folder flag are the
\* supplied object's, the name is the new name (rename) or the supplied
\* object's name (move).
C20_Original ==
  \A name \in {"Move", "Rename"} :
    (Applied(name) /\ output.err = Nil) =>
      /\ output.val.ID = input.src.id
      /\ output.val.Size = input.src.size
      /\ output.val.IsFolder = input.src.isDir
      /\ output.val.Name = IF name = "Rename" THEN input.name ELSE input.src.name

\* C20 amended: id, size and folder flag are the supplied object's; rename's
\* name is the new name; move's name and modification time are the supplied
\* object's name and the current time unless data.items of the response holds
\* an object whose numeric id renders as the supplied id: then the first such
\* item's string name and fixed-layout created_at replace them.
C20_ReturnedObject ==
  \A name \in {"Move", "Rename"} :
    (Applied(name) /\ output.err = Nil) =>
      /\ output.val.ID = input.src.id
      /\ output.val.Size = input.src.size
      /\ output.val.IsFolder = input.src.isDir
      /\ name = "Rename" => (output.val.Name = input.name /\ output.val.Modified = now)
      /\ (name = "Move" /\ C20_Hits = {}) =>
           (output.val.Name = input.src.name /\ output.val.Modified = now)
      /\ (name = "Move" /\ C20_Hits # {}) =>
           /\ output.val.Name =
                IF C20_Items[C20_First][2].name[1] = "str"
                  THEN C20_Items[C20_First][2].name[2] ELSE input.src.name
           /\ output.val.Modified =
                IF C20_Items[C20_First][2].created_at \in {Str(TsFixed), Str(TsFixed2)}
                  THEN InstantOf[C20_Items[C20_First][2].created_at[2]] ELSE now

C20_Witness ==
  /\ Applied("Move") /\ output.err = Nil
  /\ C20_Hits # {}
  /\ C20_Items[C20_First][2].name[1] = "str"
  /\ output.val.Name = C20_Items[C20_First][2].name[2]
  /\ output.val.Name # input.src.name

\* ------------------------------------------------- properties of Put
\* the first_upload call succeeded and yielded both parameters, non-empty
InitYielded(p) ==
  /\ ~initResp[p].neterr /\ initResp[p].http = 200 /\ ~initResp[p].parseErr
  /\ ~(initResp[p].code[1] = "num" /\ initResp[p].code[2] # 200)
  /\ initResp[p].csrf_token[1] = "str" /\ initResp[p].csrf_token[2] # ""
  /\ initResp[p].file_key[1] = "str" /\ initResp[p].file_key[2] # ""

PutReturned(p) == op[p] = "Put" /\ pc[p] = "done"

\* C18: Put sends the completion request only after the initiate call
\* succeeded and yielded a non-empty csrf token and a non-empty file key,
\* which the request carries; if the initiate call fails in any way or either
\* is missing or empty, Put returns an error and sends no completion request.
C18_CompletionOnlyAfterInit ==
  \A p \in Procs :
    /\ (\E i \in 1..Len(sent[p]) : sent[p][i].url = "ok_upload") =>
         /\ Len(sent[p]) = 2
         /\ sent[p][1].url = "first_upload" /\ sent[p][2].url = "ok_upload"
         /\ InitYielded(p)
         /\ sent[p][2].csrf_token = initResp[p].csrf_token[2]
         /\ sent[p][2].file_key = initResp[p].file_key[2]
    /\ (PutReturned(p) /\ ~InitYielded(p)) =>
         /\ opErr[p] \notin {Nil, NotCalled}
         /\ \A i \in 1..Len(sent[p]) : sent[p][i].url # "ok_upload"
    /\ (pc[p] = "put_complete_wait") => (InitYielded(p) /\ Len(sent[p]) = 2)

C18_Witness ==
  \E p \in Procs :
    /\ PutReturned(p)
    /\ initResp[p].http = 200 /\ initResp[p].code = Num(200)
    /\ initResp[p].csrf_token = Str("c1") /\ initResp[p].file_key = Absent
    /\ opErr[p] = ErrInitParams
    /\ Len(sent[p]) = 1 /\ sent[p][1].url = "first_upload"

\* C19: when Put has returned, whatever its outcome, the client's timeout is
\* the default (30 seconds), not the upload value.
C19_TimeoutRestored ==
  \A p \in Procs : PutReturned(p) => timeout = DefaultTimeout

\* ------------------------------------- properties of the operations' steps
RequestingOps == {"List", "Link", "MakeDir", "Move", "Rename", "Remove", "Put"}

\* the operation of caller p has returned after its one request
OpReturned(p) ==
  /\ op[p] \in {"List", "Link", "MakeDir", "Move", "Rename", "Remove"}
  /\ pc[p] = "done"

\* C21: every facade operation goes on to its own request only after
\* refreshTokenIfNeeded returned nil; when it returned an error the operation
\* returns without sending a request; and a transport failure (no response,
\* HTTP status other than 200) is reported before the envelope's code is
\* looked at.
C21_EnsureValidFirst ==
  /\ [][\A p \in Procs :
          /\ (op'[p] \in RequestingOps /\ op'[p] # op[p]) =>
               (op[p] = "Op" /\ pc[p] = "done" /\ retErr[p] = Nil)
          /\ (op[p] = "Op" /\ pc[p] = "done" /\ Failed(retErr[p])) =>
               (sent'[p] = <<>> /\ op'[p] \in {"Op", "none"})]_vars
  /\ [](\A p \in Procs :
          /\ sent[p] # <<>> => op[p] \in RequestingOps
          /\ (OpReturned(p) /\ opResp[p].neterr) => opErr[p] = ErrOpSend
          /\ (OpReturned(p) /\ ~opResp[p].neterr /\ opResp[p].http # 200) =>
               opErr[p] = ErrOpHttp
          /\ (PutReturned(p) /\ Len(sent[p]) = 1 /\ initResp[p].neterr) =>
               opErr[p] = ErrOpSend
          /\ (PutReturned(p) /\ Len(sent[p]) = 1 /\ ~initResp[p].neterr
                /\ initResp[p].http # 200) => opErr[p] = ErrOpHttp)

C21_Witness ==
  \E p \in Procs :
    /\ OpReturned(p) /\ Len(sent[p]) = 1
    /\ opResp[p].http = 500 /\ opResp[p].code = Num(404)
    /\ opErr[p] = ErrOpHttp

\* the response to the operation's request reported a failure
OpRequestFailed(p) ==
  \/ opResp[p].neterr
  \/ opResp[p].http # 200
  \/ opResp[p].parseErr
  \/ (op[p] \in {"List", "MakeDir", "Move", "Remove"}
        /\ opResp[p].code[1] = "num" /\ opResp[p].code[2] # 200)
  \/ (op[p] \in {"Link", "Rename"}
        /\ opResp[p].status[1] = "num" /\ opResp[p].status[2] # 200)

\* C22: nothing is retried: one invocation sends at most one refresh request,
\* at most one authenticate request and at most one request to each operation
\* endpoint, none of the first two once it is past refreshTokenIfNeeded; a
\* failure of the operation's own request is returned with that one request
\* sent.
C22_NoRetry ==
  \A p \in Procs :
    /\ nRefresh[p] <= 1 /\ nAuth[p] <= 1
    /\ op[p] \in RequestingOps => (nRefresh[p] = 0 /\ nAuth[p] = 0)
    /\ \A i, j \in 1..Len(sent[p]) : sent[p][i].url = sent[p][j].url => i = j
    /\ pc[p] = "op_send" => sent[p] = <<>>
    /\ pc[p] = "op_wait" => Len(sent[p]) = 1
    /\ OpReturned(p) => Len(sent[p]) = 1
    /\ (OpReturned(p) /\ OpRequestFailed(p)) => Failed(opErr[p])
    /\ PutReturned(p) => (Len(sent[p]) <= 2 /\ opErr[p] # NotCalled)

C22_Witness ==
  \E p \in Procs :
    /\ OpReturned(p) /\ op[p] = "List"
    /\ opResp[p].neterr /\ opErr[p] = ErrOpSend
    /\ Len(sent[p]) = 1 /\ sent[p][1].url = "List"

\* ------------------------------------------- properties of the session
\* the response makes authenticate return nil
C25_AuthSucceeds(r) ==
  /\ ~r.neterr /\ r.http = 200 /\ ~r.parseErr
  /\ (r.status = 200 \/ r.message = AuthSuccessMessage)
  /\ r.at # "" /\ r.rt # ""

\* the response makes refreshToken return nil
C25_RefreshSucceeds(r) ==
  ~r.neterr /\ r.http = 200 /\ ~r.parseErr /\ r.success /\ r.status = 200

\* C25: accessToken, refreshToken and expiresAt change only in the step in
\* which authenticate or refreshToken succeeds; a failed authenticate, a
\* failed refresh and every step of a facade operation's own request leave
\* the three unchanged.
C25_SessionFrame ==
  [][session' # session =>
       \E p \in Procs :
         \/ (pc[p] = "auth_wait" /\ authErr'[p] = Nil /\ C25_AuthSucceeds(authResp'[p]))
         \/ (pc[p] = "refresh_wait" /\ refreshErr'[p] = Nil
               /\ C25_RefreshSucceeds(refreshResp'[p]))]_vars

C25_Witness ==
  \E p \in Procs :
    /\ op[p] = "Op" /\ nRefresh[p] = 1 /\ refreshErr[p] = ErrRefreshApi
    /\ nAuth[p] = 1 /\ authErr[p] = ErrAuthApi
    /\ pre[p].at # "" /\ Session = PreSession(p)

\* C26: whenever refreshTokenIfNeeded returns nil the stored accessToken is
\* non-empty, and every request of an operation carries a non-empty token.
C26_TokenNonEmpty ==
  \A p \in Procs :
    /\ (op[p] = "Op" /\ pc[p] = "done" /\ retErr[p] = Nil) => AccessToken # ""
    /\ \A i \in 1..Len(sent[p]) : sent[p][i].token # ""

\* ---------------------------------------------------------------- C23, C24
\* caller p renewed the session inside its facade call
Renewed(p) == op[p] = "Op" /\ nRefresh[p] + nAuth[p] >= 1

\* C23: a caller renews only after it observed an expired token, and when
\* the host serializes the calls no two callers are renewing for the same
\* expiry: at any time at most one caller has sent a renewal request.
\* Without serialization nothing in the driver prevents it (C23_Witness).
C23_RenewalPerExpiry ==
  /\ \A p \in Callers : Renewed(p) => pre[p].now > pre[p].exp
  /\ serialized =>
       \A p \in Callers : \A q \in Callers \ {p} : ~(Renewed(p) /\ Renewed(q))

\* both callers entered on the same expired session, both sent a renewal
\* request and both wrote the stored tokens
C23_Witness ==
  /\ ~serialized
  /\ Renewed(1)
  /\ Renewed(2)
  /\ pre[1].at = pre[2].at
  /\ pre[1].exp = pre[2].exp
  /\ pre[1].now > pre[1].exp
  /\ pre[2].now > pre[2].exp
  /\ storedAt[1] # ZeroTime
  /\ storedAt[2] # ZeroTime

UploadUrls == {"first_upload", "ok_upload"}

\* C24: when the host serializes the calls every upload request is sent
\* with the ten-minute timeout (600 s) Put sets on the shared client; the
\* timeout an upload request is sent with is otherwise 600 s or the 30 s
\* default a concurrent authenticate/refresh wrote in between.
C24_UploadTimeoutShared ==
  \A p \in Callers : \A i \in 1..Len(sent[p]) :
    sent[p][i].url \in UploadUrls =>
      /\ sent[p][i].timeout \in {600, 30}
      /\ serialized => sent[p][i].timeout = 600

\* an upload request went out with the default timeout after the other
\* caller's renewal reset the shared client while the upload was running
C24_Witness ==
  /\ ~serialized
  /\ \E p \in Callers : \E q \in Callers \ {p} :
       /\ pc[p] \in {"put_init_wait", "put_complete_wait"}
       /\ sent[p][Len(sent[p])].url \in UploadUrls
       /\ sent[p][Len(sent[p])].timeout = DefaultTimeout
       /\ Renewed(q)

====
